---- MODULE Spec2Model ----
(***************************************************************************)
(* comphost: a store of named configurations kept in one TOML file, and    *)
(* the subcommands add, on, off, clone, start, stop and list-names that    *)
(* load the store, work on it and on external commands (git, docker), and  *)
(* write it back.  One invocation of the program is one process; its       *)
(* position in main() is pc.                                               *)
(*                                                                         *)
(* The world outside the program is free: what is at a path, what a        *)
(* command exits with and whether it can be spawned at all are chosen at   *)
(* every call.  Covered failures: HOME or the config directory (main       *)
(* returns), a command that cannot be spawned (expect() panics), a         *)
(* non-zero exit status.  Not covered: a failing read of standard input    *)
(* and a failing read or write of the store file itself.                   *)
(***************************************************************************)
EXTENDS Integers, Sequences, FiniteSets, TLC

\* ------------------------------------------------------------------ bounds
\* configuration names that exist
NumNames == 2
\* directories given to clone
NumDests == 2
\* names on one command line
MaxArgs == 2
\* container ids docker compose ps prints for one project
MaxContainers == 2
\* invocations launched when they may overlap
MaxRaceRuns == 3

Names == 1..NumNames
Dests == 1..NumDests
Urls == {"u1"}
Procs == {"p1", "p2"}

\* ------------------------------------------------------------- data model
\* Option<String>: None is the empty sequence, Some(x) a one-element one.
None == <<>>
Some(x) == <<x>>

\* format!("{}/{}", clone_dir, config_name)
PathJoin(d, n) == <<d, n>>

\* A line read from standard input: the text and whether it carries
\* surrounding white space (at least the newline); trim() drops the latter.
Lines(S) == [text : S, padded : BOOLEAN]
Trim(l) == l.text

\* Configuration { active: true, url, clone_path: None }
NewConfiguration(u) == [active |-> TRUE, url |-> u, clone_path |-> None]

\* Configuration::clone_project
clone_project(cfg, path) == [cfg EXCEPT !.clone_path = Some(path)]

EmptyMap == <<>>

\* HashMap::insert (mutant: the map is replaced by the one new entry)
Insert_Replacing(m, k, v) == [n \in {k} |-> v]
Insert(m, k, v) == [n \in (DOMAIN m) \cup {k} |-> IF n = k THEN v ELSE m[n]]

\* get_mut(name) followed by config.active = b; an absent name is left alone
\* (mutant: an absent name is created)
SetActive_Creating(m, k, b) ==
    IF k \in DOMAIN m THEN [m EXCEPT ![k].active = b]
    ELSE Insert(m, k, [NewConfiguration("u1") EXCEPT !.active = b])
SetActive(m, k, b) == IF k \in DOMAIN m THEN [m EXCEPT ![k].active = b] ELSE m

\* toml::to_string: one table per name; a None clone_path has no key
\* (mutant: clone_path is never written)
SerializeTable_NoPath(cfg) == [active |-> cfg.active, url |-> cfg.url]
SerializeTable(cfg) ==
    IF cfg.clone_path = None
    THEN [active |-> cfg.active, url |-> cfg.url]
    ELSE [active |-> cfg.active, url |-> cfg.url, clone_path |-> cfg.clone_path[1]]
Serialize(m) == [n \in DOMAIN m |-> SerializeTable(m[n])]

\* toml::from_str: a missing clone_path key is None
ParseTable(t) ==
    [active |-> t.active, url |-> t.url,
     clone_path |-> IF "clone_path" \in DOMAIN t THEN Some(t.clone_path) ELSE None]
Parse(f) == [n \in DOMAIN f |-> ParseTable(f[n])]

\* What the final write leaves in the file: truncate, then the whole mapping
\* (mutant: the tables already in the file are kept)
StoreWrite_Merging(old, m) ==
    [n \in (DOMAIN old) \cup (DOMAIN m) |->
        IF n \in DOMAIN m THEN SerializeTable(m[n]) ELSE old[n]]
StoreWrite(old, m) == Serialize(m)

\* ------------------------------------------------------ external commands
\* Outcome of Command::output(): exit status zero, non-zero, or no process
\* at all (the expect() panics).
Results == {"ok", "fail", "spawn"}
\* std::fs::metadata of the target path
Kinds == {"dir", "file", "absent"}
\* docker compose ps --format {{.ID}}, split at white space
PsOutputs == {[k \in 1..len |-> k] : len \in 0..MaxContainers}

NoCall == [op |-> "none", name |-> 0, cid |-> 0, res |-> "ok", meta |-> "none"]
Call(o, n, c, r) == [op |-> o, name |-> n, cid |-> c, res |-> r, meta |-> "none"]
Stat(n, k) == [op |-> "none", name |-> n, cid |-> 0, res |-> "ok", meta |-> k]
StatCall(o, n, r) == [op |-> o, name |-> n, cid |-> 0, res |-> r, meta |-> "absent"]

\* ------------------------------------------------------------------ state
VARIABLES
    file,      \* the store file, as written by the last save
    pc,        \* where each invocation is in main(), or how it ended
    cmd,       \* its subcommand
    args,      \* the names given to add, on, off the loop has not taken yet
    content,   \* toml_content
    todo,      \* names the iteration over toml_content has not visited yet
    cdir,      \* clone_dir (0 before the prompt)
    cur,       \* config_name of the iteration in progress in start
    conts,     \* container ids still to attach
    net,       \* outcome of the network inspect/create step
    call,      \* the last external command (or metadata lookup) and its outcome
    out,       \* names reported added, turned on or turned off on standard output
    err,       \* names reported "not found" on standard error
    saved,     \* the invocation has written the file
    runs       \* number of overlapping invocations launched

vars == <<file, pc, cmd, args, content, todo, cdir, cur, conts, net, call,
          out, err, saved, runs>>

NameLists == UNION {[1..len -> Names] : len \in 0..MaxArgs}

\* No invocation is running: none yet, or the last one ended in this way.
Terminated == {"idle", "exit_ok", "exit_env", "exit_net", "panic"}

Init ==
    /\ file = EmptyMap
    /\ pc = [p \in Procs |-> "idle"]
    /\ cmd = [p \in Procs |-> "none"]
    /\ args = [p \in Procs |-> <<>>]
    /\ content = [p \in Procs |-> EmptyMap]
    /\ todo = [p \in Procs |-> {}]
    /\ cdir = [p \in Procs |-> 0]
    /\ cur = [p \in Procs |-> 0]
    /\ conts = [p \in Procs |-> <<>>]
    /\ net = [p \in Procs |-> "unchecked"]
    /\ call = [p \in Procs |-> NoCall]
    /\ out = [p \in Procs |-> {}]
    /\ err = [p \in Procs |-> {}]
    /\ saved = [p \in Procs |-> FALSE]
    /\ runs = 0

\* The process ends in the way `how`: its memory is gone, what is left is how
\* it ended, whether it wrote the file, and what the network step found.
Terminate(p, how, wrote) ==
    /\ pc' = [pc EXCEPT ![p] = how]
    /\ saved' = [saved EXCEPT ![p] = wrote]
    /\ cmd' = [cmd EXCEPT ![p] = "none"]
    /\ args' = [args EXCEPT ![p] = <<>>]
    /\ content' = [content EXCEPT ![p] = EmptyMap]
    /\ todo' = [todo EXCEPT ![p] = {}]
    /\ cdir' = [cdir EXCEPT ![p] = 0]
    /\ cur' = [cur EXCEPT ![p] = 0]
    /\ conts' = [conts EXCEPT ![p] = <<>>]
    /\ call' = [call EXCEPT ![p] = NoCall]
    /\ out' = [out EXCEPT ![p] = {}]
    /\ err' = [err EXCEPT ![p] = {}]

\* expect() on a command that could not be spawned
Panic(p) ==
    /\ Terminate(p, "panic", FALSE)
    /\ UNCHANGED <<file, net, runs>>

\* -------------------------------------------------------- start of main()
Commands == {"add", "on", "off", "clone", "start", "stop", "list"}

\* The match arm a subcommand dispatches to.
Arm(c) ==
    CASE c = "add" -> "add"
      [] c = "on" -> "on"
      [] c = "off" -> "off"
      [] c = "clone" -> "prompt"
      [] c = "start" -> "inspect"
      [] c = "stop" -> "stop"
      [] c = "list" -> "list"

\* Cli::parse, HOME, create_dir_all, read and deserialize the file, dispatch.
Load(p, c, a) ==
    /\ pc[p] \in Terminated
    /\ pc' = [pc EXCEPT ![p] = Arm(c)]
    /\ cmd' = [cmd EXCEPT ![p] = c]
    /\ args' = [args EXCEPT ![p] = a]
    /\ content' = [content EXCEPT ![p] = Parse(file)]
    /\ todo' = [todo EXCEPT ![p] = IF c \in {"clone", "start", "stop"}
                                   THEN DOMAIN Parse(file) ELSE {}]
    /\ net' = [net EXCEPT ![p] = "unchecked"]
    /\ saved' = [saved EXCEPT ![p] = FALSE]
    /\ UNCHANGED <<file, cdir, cur, conts, call, out, err>>

LoadInputs(c, a) ==
    /\ c \in Commands
    /\ a \in NameLists
    /\ (c \notin {"add", "on", "off"} => a = <<>>)

\* HOME is not set, or the config directory cannot be created: return.
EnvFail(p) ==
    /\ pc[p] \in Terminated
    /\ Terminate(p, "exit_env", FALSE)
    /\ net' = [net EXCEPT ![p] = "unchecked"]
    /\ UNCHANGED file

\* One invocation at a time.
Launch(p) ==
    /\ \A q \in Procs : pc[q] = "idle"
    /\ \E c \in Commands, a \in NameLists : LoadInputs(c, a) /\ Load(p, c, a)
    /\ UNCHANGED runs

LaunchFail(p) ==
    /\ \A q \in Procs : pc[q] = "idle"
    /\ EnvFail(p)
    /\ UNCHANGED runs

\* Invocations that may overlap, each given one name or none.
RaceNameLists == {<<>>} \cup {<<n>> : n \in Names}

LaunchRace(p) ==
    /\ runs < MaxRaceRuns
    /\ runs' = runs + 1
    /\ \E c \in Commands, a \in RaceNameLists : LoadInputs(c, a) /\ Load(p, c, a)

LaunchFailRace(p) ==
    /\ runs < MaxRaceRuns
    /\ runs' = runs + 1
    /\ EnvFail(p)

\* ------------------------------------------------------------ add, on, off
\* One turn of `for config_name in &name`: args is what the loop has left.
Add(p) ==
    /\ pc[p] = "add"
    /\ args[p] # <<>>
    /\ \E line \in Lines(Urls) :
         content' = [content EXCEPT ![p] =
                       Insert(@, Head(args[p]), NewConfiguration(Trim(line)))]
    /\ out' = [out EXCEPT ![p] = @ \cup {Head(args[p])}]
    /\ args' = [args EXCEPT ![p] = Tail(@)]
    /\ UNCHANGED <<file, pc, cmd, todo, cdir, cur, conts, net, call, err,
                   saved, runs>>

OnOff(p, arm, b) ==
    /\ pc[p] = arm
    /\ args[p] # <<>>
    /\ content' = [content EXCEPT ![p] = SetActive(@, Head(args[p]), b)]
    /\ IF Head(args[p]) \in DOMAIN content[p]
       THEN /\ out' = [out EXCEPT ![p] = @ \cup {Head(args[p])}]
            /\ err' = err
       ELSE /\ err' = [err EXCEPT ![p] = @ \cup {Head(args[p])}]
            /\ out' = out
    /\ args' = [args EXCEPT ![p] = Tail(@)]
    /\ UNCHANGED <<file, pc, cmd, todo, cdir, cur, conts, net, call, saved, runs>>

On(p) == OnOff(p, "on", TRUE)

Off(p) == OnOff(p, "off", FALSE)

\* ------------------------------------------------------------------- clone
ClonePrompt(p) ==
    /\ pc[p] = "prompt"
    /\ \E line \in Lines(Dests) : cdir' = [cdir EXCEPT ![p] = Trim(line)]
    /\ pc' = [pc EXCEPT ![p] = "clone"]
    /\ UNCHANGED <<file, cmd, args, content, todo, cur, conts, net, call,
                   out, err, saved, runs>>

\* if config.active (mutant: every configuration is taken)
IsActive_Always(cfg) == TRUE
IsActive(cfg) == cfg.active

\* metadata.is_dir()
IsDir(k) == k = "dir"

\* status.success() (mutant: any exit status counts)
Success_Any(r) == TRUE
Success(r) == r = "ok"

\* The entry after git clone returned r (mutant: a failure clears clone_path)
AfterClone_Clearing(cfg, r, path) ==
    IF Success(r) THEN clone_project(cfg, path) ELSE [cfg EXCEPT !.clone_path = None]
AfterClone(cfg, r, path) == IF Success(r) THEN clone_project(cfg, path) ELSE cfg

\* An inactive configuration is passed over.
CloneInactive(p) ==
    /\ pc[p] = "clone"
    /\ \E n \in todo[p] :
         /\ ~IsActive(content[p][n])
         /\ todo' = [todo EXCEPT ![p] = @ \ {n}]
         /\ call' = [call EXCEPT ![p] = Stat(n, "none")]
    /\ UNCHANGED <<file, pc, cmd, args, content, cdir, cur, conts, net, out, err,
                   saved, runs>>

\* The target path exists: a directory counts as cloned, anything else is skipped.
CloneExisting(p) ==
    /\ pc[p] = "clone"
    /\ \E n \in todo[p], k \in Kinds \ {"absent"} :
         /\ IsActive(content[p][n])
         /\ todo' = [todo EXCEPT ![p] = @ \ {n}]
         /\ call' = [call EXCEPT ![p] = Stat(n, k)]
         /\ IF IsDir(k)
            THEN content' = [content EXCEPT ![p][n] =
                               clone_project(@, PathJoin(cdir[p], n))]
            ELSE UNCHANGED content
    /\ UNCHANGED <<file, pc, cmd, args, cdir, cur, conts, net, out, err, saved, runs>>

\* Nothing at the target path: git clone url name, in clone_dir.
CloneGit(p) ==
    /\ pc[p] = "clone"
    /\ \E n \in todo[p], r \in Results :
         /\ IsActive(content[p][n])
         /\ IF r = "spawn"
            THEN Panic(p)
            ELSE /\ todo' = [todo EXCEPT ![p] = @ \ {n}]
                 /\ call' = [call EXCEPT ![p] = StatCall("git", n, r)]
                 /\ content' = [content EXCEPT ![p][n] =
                                  AfterClone(@, r, PathJoin(cdir[p], n))]
                 /\ UNCHANGED <<file, pc, cmd, args, cdir, cur, conts, net,
                                out, err, saved, runs>>

\* ------------------------------------------------------------------- start
\* Where start goes after docker network inspect
InspectNext(r) == IF Success(r) THEN "start" ELSE "create"

\* docker network inspect comphost
NetworkInspect(p) ==
    /\ pc[p] = "inspect"
    /\ \E r \in Results :
         IF r = "spawn"
         THEN Panic(p)
         ELSE /\ call' = [call EXCEPT ![p] = Call("inspect", 0, 0, r)]
              /\ pc' = [pc EXCEPT ![p] = InspectNext(r)]
              /\ net' = [net EXCEPT ![p] = IF r = "ok" THEN "exists" ELSE @]
              /\ UNCHANGED <<file, cmd, args, content, todo, cdir, cur, conts,
                             out, err, saved, runs>>

\* Where start goes after docker network create
\* (mutant: a failed create is reported and start carries on)
CreateNext_Continuing(r) == "start"
CreateNext(r) == IF Success(r) THEN "start" ELSE "exit_net"

\* docker network create comphost; when it fails main returns
NetworkCreate(p) ==
    /\ pc[p] = "create"
    /\ \E r \in Results :
         CASE r = "spawn" -> Panic(p)
           [] r # "spawn" /\ CreateNext(r) = "exit_net" ->
                /\ Terminate(p, "exit_net", FALSE)
                /\ net' = [net EXCEPT ![p] = "failed"]
                /\ UNCHANGED <<file, runs>>
           [] OTHER ->
                /\ call' = [call EXCEPT ![p] = Call("create", 0, 0, r)]
                /\ pc' = [pc EXCEPT ![p] = CreateNext(r)]
                /\ net' = [net EXCEPT ![p] = IF r = "ok" THEN "created" ELSE "failed"]
                /\ UNCHANGED <<file, cmd, args, content, todo, cdir, cur,
                               conts, out, err, saved, runs>>

\* if config.active { if let Some(ref clone_path) = config.clone_path
\* (mutant: the active flag is not looked at)
Runnable_IgnoringActive(cfg) == cfg.clone_path # None
Runnable(cfg) == IsActive(cfg) /\ cfg.clone_path # None

\* Where start goes after docker compose up
\* (mutant: a failed up ends the iteration over the configurations)
UpNext_Aborting(r) == IF Success(r) THEN "ps" ELSE "listed"
UpNext(r) == IF Success(r) THEN "ps" ELSE "start"

\* A configuration that is off or not cloned is passed over.
StartSkip(p) ==
    /\ pc[p] = "start"
    /\ \E n \in todo[p] :
         /\ ~Runnable(content[p][n])
         /\ todo' = [todo EXCEPT ![p] = @ \ {n}]
         /\ call' = [call EXCEPT ![p] = Call("none", n, 0, "ok")]
    /\ UNCHANGED <<file, pc, cmd, args, content, cdir, cur, conts, net, out, err,
                   saved, runs>>

\* docker compose up --detach, in clone_path
StartUp(p) ==
    /\ pc[p] = "start"
    /\ \E n \in todo[p], r \in Results :
         /\ Runnable(content[p][n])
         /\ IF r = "spawn"
            THEN Panic(p)
            ELSE /\ todo' = [todo EXCEPT ![p] = @ \ {n}]
                 /\ call' = [call EXCEPT ![p] = Call("up", n, 0, r)]
                 /\ pc' = [pc EXCEPT ![p] = UpNext(r)]
                 /\ cur' = [cur EXCEPT ![p] = IF r = "ok" THEN n ELSE @]
                 /\ UNCHANGED <<file, cmd, args, content, cdir, conts, net,
                                out, err, saved, runs>>

\* docker compose ps: its exit status is not looked at, its output is split
StartPs(p) ==
    /\ pc[p] = "ps"
    /\ \E r \in Results, ids \in PsOutputs :
         IF r = "spawn"
         THEN Panic(p)
         ELSE /\ call' = [call EXCEPT ![p] = Call("ps", cur[p], 0, r)]
              /\ conts' = [conts EXCEPT ![p] = ids]
              /\ pc' = [pc EXCEPT ![p] = IF ids = <<>> THEN "start" ELSE "connect"]
              /\ UNCHANGED <<file, cmd, args, content, todo, cdir, cur, net,
                             out, err, saved, runs>>

\* The container ids left after one docker network connect, whatever it returned
ConnectRest(ids, r) == Tail(ids)

\* docker network connect comphost <container id>
StartConnect(p) ==
    /\ pc[p] = "connect"
    /\ \E r \in Results :
         IF r = "spawn"
         THEN Panic(p)
         ELSE /\ call' = [call EXCEPT ![p] =
                            Call("connect", cur[p], Head(conts[p]), r)]
              /\ conts' = [conts EXCEPT ![p] = ConnectRest(@, r)]
              /\ pc' = [pc EXCEPT ![p] = IF ConnectRest(conts[p], r) = <<>>
                                         THEN "start" ELSE "connect"]
              /\ UNCHANGED <<file, cmd, args, content, todo, cdir, cur, net,
                             out, err, saved, runs>>

\* -------------------------------------------------------------------- stop
StopSkip(p) ==
    /\ pc[p] = "stop"
    /\ \E n \in todo[p] :
         /\ ~Runnable(content[p][n])
         /\ todo' = [todo EXCEPT ![p] = @ \ {n}]
         /\ call' = [call EXCEPT ![p] = Call("none", n, 0, "ok")]
    /\ UNCHANGED <<file, pc, cmd, args, content, cdir, cur, conts, net, out, err,
                   saved, runs>>

\* docker compose down, in clone_path
StopDown(p) ==
    /\ pc[p] = "stop"
    /\ \E n \in todo[p], r \in Results :
         /\ Runnable(content[p][n])
         /\ IF r = "spawn"
            THEN Panic(p)
            ELSE /\ todo' = [todo EXCEPT ![p] = @ \ {n}]
                 /\ call' = [call EXCEPT ![p] = Call("down", n, 0, r)]
                 /\ UNCHANGED <<file, pc, cmd, args, content, cdir, cur,
                                conts, net, out, err, saved, runs>>

\* -------------------------------------------------------------- list-names
ListNames(p) ==
    /\ pc[p] = "list"
    /\ pc' = [pc EXCEPT ![p] = "listed"]
    /\ UNCHANGED <<file, cmd, args, content, todo, cdir, cur, conts, net,
                   call, out, err, saved, runs>>

\* ---------------------------------------------------------- end of main()
\* The match arm has run to its end.
ArmDone(p) ==
    \/ pc[p] \in {"add", "on", "off"} /\ args[p] = <<>>
    \/ pc[p] \in {"clone", "start", "stop"} /\ todo[p] = {}
    \/ pc[p] = "listed"

\* toml::to_string, open with truncate and create, write; main returns
Save(p) ==
    /\ ArmDone(p)
    /\ file' = StoreWrite(file, content[p])
    /\ Terminate(p, "exit_ok", TRUE)
    /\ UNCHANGED <<net, runs>>

\* The exit status has been collected; nothing of the invocation is left.
Exit(p) ==
    /\ pc[p] \in Terminated \ {"idle"}
    /\ pc' = [pc EXCEPT ![p] = "idle"]
    /\ saved' = [saved EXCEPT ![p] = FALSE]
    /\ net' = [net EXCEPT ![p] = "unchecked"]
    /\ UNCHANGED <<file, cmd, args, content, todo, cdir, cur, conts, call,
                   out, err, runs>>

\* ---------------------------------------------------------- specifications
Step(p) ==
    \/ Add(p)
    \/ On(p)
    \/ Off(p)
    \/ ClonePrompt(p)
    \/ CloneInactive(p)
    \/ CloneExisting(p)
    \/ CloneGit(p)
    \/ NetworkInspect(p)
    \/ NetworkCreate(p)
    \/ StartSkip(p)
    \/ StartUp(p)
    \/ StartPs(p)
    \/ StartConnect(p)
    \/ StopSkip(p)
    \/ StopDown(p)
    \/ ListNames(p)
    \/ Save(p)

\* Invocations one after the other.
Next == \E p \in Procs : Launch(p) \/ LaunchFail(p) \/ Step(p) \/ Exit(p)

Spec == Init /\ [][Next]_vars

\* Invocations that may overlap, MaxRaceRuns of them.
NextRace == \E p \in Procs : LaunchRace(p) \/ LaunchFailRace(p) \/ Step(p)

SpecRace == Init /\ [][NextRace]_vars

\* ------------------------------------------------------------------ claims
Running(p) == pc[p] \notin Terminated

C2_ClonePathOnlyFromClone ==
    [][/\ \A p \in Procs : \A n \in DOMAIN content'[p] :
            content'[p][n].clone_path # None =>
               \/ /\ n \in DOMAIN content[p]
                  /\ content[p][n].clone_path = content'[p][n].clone_path
               \/ /\ pc[p] \in Terminated
                  /\ n \in DOMAIN file
                  /\ "clone_path" \in DOMAIN file[n]
                  /\ content'[p][n].clone_path = Some(file[n].clone_path)
               \/ /\ pc[p] = "clone" /\ cmd[p] = "clone"
                  /\ call'[p].name = n
                  /\ \/ call'[p].meta = "dir"
                     \/ call'[p].op = "git" /\ call'[p].res = "ok"
                  /\ content'[p][n].clone_path = Some(PathJoin(cdir[p], n))
       /\ \A p \in Procs :
            (pc[p] = "add" /\ args'[p] # args[p]) =>
               content'[p][Head(args[p])].clone_path = None
       /\ \A n \in DOMAIN file' :
            "clone_path" \in DOMAIN file'[n] =>
               \/ /\ n \in DOMAIN file
                  /\ "clone_path" \in DOMAIN file[n]
                  /\ file[n].clone_path = file'[n].clone_path
               \/ \E p \in Procs :
                    /\ Running(p) /\ pc'[p] = "exit_ok"
                    /\ n \in DOMAIN content[p]
                    /\ content[p][n].clone_path = Some(file'[n].clone_path)]_vars

\* The saved store holds a configuration with a clone_path while a later add
\* has put the same name back with none.
C2_Witness ==
    \E p \in Procs : \E n \in DOMAIN file :
        /\ "clone_path" \in DOMAIN file[n]
        /\ pc[p] = "add"
        /\ n \in DOMAIN content[p]
        /\ content[p][n].clone_path = None

\* C3 as stated: after git clone exited non-zero for a configuration, its
\* clone_path is absent.
C3_FailedCloneUnsets ==
    \A p \in Procs :
        (pc[p] = "clone" /\ call[p].op = "git" /\ call[p].res = "fail") =>
            content[p][call[p].name].clone_path = None

\* C3 as amended: after git clone exited non-zero for a configuration, its
\* clone_path is what it was when the invocation loaded the store: absent if
\* it was absent, the earlier path if an earlier clone had set one.
C3_FailedCloneKeeps ==
    \A p \in Procs :
        (pc[p] = "clone" /\ call[p].op = "git" /\ call[p].res = "fail") =>
            /\ call[p].name \in DOMAIN file
            /\ content[p][call[p].name] = Parse(file)[call[p].name]

\* git clone into another destination has failed for a configuration that an
\* earlier clone had given a clone_path.
C3_Witness ==
    \E p \in Procs :
        /\ pc[p] = "clone" /\ call[p].op = "git" /\ call[p].res = "fail"
        /\ content[p][call[p].name].clone_path # None
        /\ content[p][call[p].name].clone_path # Some(PathJoin(cdir[p], call[p].name))

\* C4: a turn of on/off on a name of the store sets its active flag and reports
\* it; on a name not in the store it reports the name not found and leaves the
\* mapping as it is; either way the loop goes on with the names after it; and
\* the store saved at the end has the names it had, every reported name with
\* the flag of the subcommand and no name reported not found.
C4_OnOffPartialSuccess ==
    [][\A p \in Procs :
         /\ (pc[p] \in {"on", "off"} /\ args'[p] # args[p]) =>
               /\ pc'[p] = pc[p]
               /\ args'[p] = Tail(args[p])
               /\ IF Head(args[p]) \in DOMAIN content[p]
                  THEN /\ DOMAIN content'[p] = DOMAIN content[p]
                       /\ content'[p][Head(args[p])].active = (pc[p] = "on")
                       /\ Head(args[p]) \in out'[p]
                       /\ err'[p] = err[p]
                  ELSE /\ content'[p] = content[p]
                       /\ Head(args[p]) \in err'[p]
                       /\ out'[p] = out[p]
         /\ (pc[p] \in {"on", "off"} /\ pc'[p] = "exit_ok") =>
               /\ args[p] = <<>>
               /\ DOMAIN file' = DOMAIN file
               /\ \A k \in out[p] : k \in DOMAIN file /\ file'[k].active = (pc[p] = "on")
               /\ \A k \in err[p] : k \notin DOMAIN file /\ k \notin DOMAIN file']_vars

\* off has been through its names: one was not found, another was on in the
\* store and is off now.
C4_Witness ==
    \E p \in Procs :
        /\ pc[p] = "off" /\ args[p] = <<>>
        /\ err[p] # {}
        /\ \E k \in out[p] : file[k].active /\ ~content[p][k].active

\* C5: the clone turn of an active configuration whose target path is a
\* directory sets clone_path to destination/name and runs no git; the turn of
\* an inactive configuration runs no git, looks at no path and leaves the
\* configuration as it is.
C5_CloneSkipsExisting ==
    [][\A p \in Procs :
         (pc[p] = "clone" /\ pc'[p] = "clone") =>
            \A n \in todo[p] \ todo'[p] :
               /\ call'[p].name = n
               /\ call'[p].meta = "dir" =>
                     /\ content[p][n].active
                     /\ call'[p].op # "git"
                     /\ content'[p][n].clone_path = Some(PathJoin(cdir[p], n))
               /\ ~content[p][n].active =>
                     /\ call'[p].op # "git"
                     /\ call'[p].meta = "none"
                     /\ content'[p] = content[p]]_vars

\* clone has found the directory of one configuration and has passed over an
\* inactive one.
C5_Witness ==
    \E p \in Procs :
        /\ pc[p] = "clone" /\ call[p].meta = "dir" /\ call[p].op = "none"
        /\ content[p][call[p].name].clone_path = Some(PathJoin(cdir[p], call[p].name))
        /\ \E m \in (DOMAIN content[p]) \ todo[p] : ~content[p][m].active

\* C6: an up, ps, network connect or down call is for a configuration that is
\* active and has a clone_path; and when start passes over a configuration the
\* network step has been through.
C6_OnlyRunnableAreRun ==
    \A p \in Procs :
        /\ call[p].op \in {"up", "ps", "connect", "down"} =>
              /\ call[p].name \in DOMAIN content[p]
              /\ content[p][call[p].name].active
              /\ content[p][call[p].name].clone_path # None
        /\ (pc[p] = "start" /\ call[p].op = "none" /\ call[p].name # 0) =>
              net[p] \in {"exists", "created"}

\* start has passed over an active configuration with no clone_path, after the
\* network step.
C6_Witness ==
    \E p \in Procs :
        /\ pc[p] = "start" /\ call[p].op = "none"
        /\ call[p].name \in DOMAIN content[p]
        /\ content[p][call[p].name].active
        /\ content[p][call[p].name].clone_path = None
        /\ net[p] \in {"exists", "created"}

\* C7: after a git clone, up or down that exited non-zero the iteration is
\* where it was, with every other configuration it had left; after a network
\* connect that exited non-zero the other containers are still to attach and
\* the configurations left are untouched; and the store is written only
\* once no configuration and no container is left.
C7_FailureDoesNotAbort ==
    [][\A p \in Procs :
         /\ ( /\ Running(p)
              /\ <<pc[p], todo[p], conts[p], call[p]>> # <<pc'[p], todo'[p], conts'[p], call'[p]>>
              /\ call'[p].res = "fail" ) =>
               CASE call'[p].op = "git" ->
                      pc'[p] = "clone" /\ todo'[p] = todo[p] \ {call'[p].name}
                 [] call'[p].op = "up" ->
                      pc'[p] = "start" /\ todo'[p] = todo[p] \ {call'[p].name}
                 [] call'[p].op = "down" ->
                      pc'[p] = "stop" /\ todo'[p] = todo[p] \ {call'[p].name}
                 [] call'[p].op = "connect" ->
                      /\ todo'[p] = todo[p]
                      /\ conts'[p] = Tail(conts[p])
                      /\ pc'[p] = IF Tail(conts[p]) = <<>> THEN "start" ELSE "connect"
                 [] OTHER -> pc'[p] \notin Terminated
         /\ (Running(p) /\ pc'[p] = "exit_ok" /\ cmd[p] \in {"clone", "start", "stop"}) =>
               /\ pc[p] \in {"clone", "start", "stop"}
               /\ todo[p] = {}
               /\ conts[p] = <<>>]_vars

\* An attachment has failed while containers and configurations are left.
C7_Witness ==
    \E p \in Procs :
        /\ pc[p] = "connect" /\ call[p].op = "connect" /\ call[p].res = "fail"
        /\ conts[p] # <<>>
        /\ todo[p] # {}

\* C8: an invocation takes its mapping from the file when it starts and at no
\* other time, the file changes only when an invocation saves, and what a save
\* leaves in the file is the saver's mapping alone, whatever another
\* invocation wrote meanwhile.
C8_LastWriterWins ==
    [][/\ \A p \in Procs :
            /\ (pc[p] \in Terminated /\ Running(p)') => content'[p] = Parse(file)
            /\ (Running(p) /\ pc'[p] = "exit_ok") => Parse(file') = content[p]
       /\ file' # file => \E p \in Procs : Running(p) /\ pc'[p] = "exit_ok"]_vars

\* One invocation has saved a name that the other, which loaded the store
\* before that, does not have and is about to save over.
C8_Witness ==
    \E p, q \in Procs :
        /\ p # q
        /\ pc[q] = "exit_ok" /\ saved[q]
        /\ ArmDone(p)
        /\ \E n \in DOMAIN file : n \notin DOMAIN content[p]

C10_UpAfterNetwork ==
    \A p \in Procs :
        /\ call[p].op \in {"up", "ps", "connect"} => net[p] \in {"exists", "created"}
        /\ pc[p] \in {"start", "ps", "connect"} => net[p] \in {"exists", "created"}
        /\ net[p] = "failed" => pc[p] = "exit_net"

\* up has been issued after network inspect failed and network create succeeded.
C10_Witness ==
    \E p \in Procs : call[p].op = "up" /\ net[p] = "created"

====
